---------------------------- MODULE Spec2Model ----------------------------
(***************************************************************************)
(* COMPLiQ MCP server on Cloudflare Workers (rosedael/remote-mcp-server-cf).*)
(*                                                                         *)
(* The repository holds several drafts of the same worker.  Three of them  *)
(* are modelled, told apart by the variable `draft`:                       *)
(*   "index_ts"  src/src/index.ts        (the webpack entry; inputPrompt   *)
(*               is implemented, the other three tools are placeholders)   *)
(*   "part_001"  src/unnamed/part_001, lines 1-725 (tracked SSE clients,   *)
(*               /mcp describe/run, all four tools implemented)            *)
(*   "part_002"  src/unnamed/part_002    (McpAgent based, all four tools   *)
(*               implemented, chunked base64 decoding)                     *)
(***************************************************************************)
EXTENDS Integers, Sequences, FiniteSets, TLC

VARIABLES
    http,         \* the request answered last, its response and log lines
    draft,        \* which draft of the worker is deployed
    apiKey,       \* env.COMPLIQ_API_KEY
    initialized,  \* MyMCP.initialized
    tools,        \* McpServer registrations: tool name -> times registered
    call,         \* the tool call being served (one /mcp or framework call)
    sse,          \* per SSE connection: stream, writer, timer, listener
    sseClients,   \* MyMCP.sseClients: the tracked connections (part_001)
    mcpClients,   \* connections whose handler the MCP server holds
    decoder       \* the base64 decoding in progress

-----------------------------------------------------------------------------
(* Bounds of the model *)

\* How many of a tool's scalar fields one enumerated call may leave out.
MaxMissing == 1

\* SSE connections the model opens.
MaxClients == 2

\* Heartbeat ticks the model fires, over all connections.
MaxTicks == 2

\* Protocol events the MCP layer forwards, over all connections.
MaxEvents == 2

\* Writes a writer holds that the stream has not taken yet.
MaxPending == 2

\* Times initServer may register one tool.
MaxRegistrations == 2

-----------------------------------------------------------------------------
(* JavaScript values *)

\* The JavaScript value undefined (a field that the caller did not send).
UNDEF == "<undefined>"

\* Truthiness of a string-or-undefined value: `if (content)`.
Truthy(v) == v # UNDEF /\ v # ""

\* Conversion to a USVString, as FormData.append and template literals do.
Str(v) == IF v = UNDEF THEN "undefined" ELSE v

Drafts == {"index_ts", "part_001", "part_002"}

ToolNames == {"inputPrompt", "addFile", "intermediateResults", "processingResult"}

Fields == {"sessionId", "correlationId", "timestamp", "userId", "content",
           "fileBase64", "fileName", "fileContentType", "resourceName",
           "processingTime"}

\* The four upstream endpoints: the literal URL of each handler's fetch().
ApiBase == "https://ai-stage-be.compliq.io/v1/actions/"

\* Every handler posting to the endpoint of the first one.
EndpointOfFirstTool(tool) == ApiBase \o "task-input"

Endpoint(tool) ==
    CASE tool = "inputPrompt"         -> ApiBase \o "task-input"
      [] tool = "addFile"             -> ApiBase \o "file-input"
      [] tool = "intermediateResults" -> ApiBase \o "resources-used"
      [] tool = "processingResult"    -> ApiBase \o "output"

-----------------------------------------------------------------------------
(* atob: base64 text to a binary string *)

\* The base64 texts the model sends, with the bytes each decodes to.
\* "%%%" is not base64; undefined is converted to "undefined", nine
\* characters, which is not base64 either.
\* An atob that takes any text.
AtobOkAnyText(b64) == TRUE

AtobOk(b64) == b64 \in {"", "QUJD", "AAEC"}

Atob(b64) ==
    CASE b64 = ""     -> <<>>
      [] b64 = "QUJD" -> <<65, 66, 67>>
      [] b64 = "AAEC" -> <<0, 1, 2>>
      [] OTHER        -> <<>>

AtobErrorMessage == "atob() called with invalid base64-encoded data"

-----------------------------------------------------------------------------
(* FormData *)

TextPart(name, v) ==
    [name |-> name, kind |-> "text", value |-> Str(v), bytes |-> <<>>,
     filename |-> "", type |-> ""]

\* new Blob(parts, { type }): the type is converted to ASCII lower case; an
\* omitted type is the empty string.
BlobType(type) ==
    CASE type = UNDEF -> ""
      [] type = "PDF" -> "pdf"
      [] OTHER        -> type

\* formData.append("file", new Blob([bytes], {type}), fileName): an omitted
\* file name defaults to "blob".
FilePart(b64, fileName, fileContentType) ==
    [name |-> "file", kind |-> "file", value |-> "", bytes |-> Atob(b64),
     filename |-> IF fileName = UNDEF THEN "blob" ELSE fileName,
     type |-> BlobType(fileContentType)]

HasPart(fd, name) == \E i \in 1..Len(fd) : fd[i].name = name

PartOf(fd, name) == fd[CHOOSE i \in 1..Len(fd) : fd[i].name = name]

-----------------------------------------------------------------------------
(* ToolResult *)

\* { content: [{ type: "text", text }] }; a text is kept as the sequence of
\* the pieces the code concatenates.
ToolResult(text) == [content |-> <<[type |-> "text", text |-> text]>>]

NoResult == [content |-> <<>>]

\* catch (error) { ... text: `Error: ${error.message || "Unknown error"}` }
CatchResult(message) ==
    ToolResult(<<"Error: ", IF message = "" THEN "Unknown error" ELSE message>>)


-----------------------------------------------------------------------------
(* The upstream API as the handlers see it *)

\* response.status values; response.ok is true for 200..299.
Statuses == {200, 299, 300, 503}

\* A success test that takes 300 for a success.
ResponseOkThrough300(status) == status >= 200 /\ status <= 300

ResponseOk(status) == status >= 200 /\ status <= 299

\* Response bodies: two spellings of the same JSON object, a plain text and
\* an empty body.
Bodies == {"{\"id\":\"abc\"}", "{ \"id\" : \"abc\" }", "overloaded", ""}

\* response.json(): whether the body parses, and the value it parses to.
JsonOk(body) == body \in {"{\"id\":\"abc\"}", "{ \"id\" : \"abc\" }"}

JsonParse(body) == IF JsonOk(body) THEN [id |-> "abc"] ELSE [id |-> UNDEF]

\* JSON.stringify of a parsed value: no white space.
JsonStringify(v) == "{\"id\":\"" \o v.id \o "\"}"

JsonErrorMessage(body) ==
    IF body = "" THEN "Unexpected end of JSON input"
    ELSE "Unexpected token o in JSON at position 0"

\* Messages of the errors fetch() rejects with; an error may carry none.
FetchErrorMessages == {"Network connection lost", ""}

Upstream(kind, status, body, msg) ==
    [kind |-> kind, status |-> status, body |-> body, msg |-> msg]

NoUpstream == Upstream("none", 0, "", "")

UpstreamOutcomes ==
    {Upstream("throws", 0, "", m) : m \in FetchErrorMessages}
    \cup {Upstream("response", st, b, "") : st \in Statuses, b \in Bodies}

-----------------------------------------------------------------------------
(* Tool parameter schemas (zod) *)

\* Fields a tool's handler destructures.
ToolFields(tool) ==
    CASE tool = "inputPrompt" ->
           {"sessionId", "correlationId", "content", "userId", "timestamp"}
      [] tool = "addFile" ->
           {"sessionId", "correlationId", "fileBase64", "fileName",
            "fileContentType", "userId", "timestamp"}
      [] tool = "intermediateResults" ->
           {"sessionId", "correlationId", "resourceName", "content",
            "fileBase64", "fileName", "fileContentType", "userId", "timestamp"}
      [] tool = "processingResult" ->
           {"sessionId", "correlationId", "processingTime", "content",
            "fileBase64", "fileName", "fileContentType", "userId", "timestamp"}

\* Fields declared without .optional() in the tool's schema.
RequiredFields(tool) ==
    CASE tool = "inputPrompt" ->
           {"sessionId", "correlationId", "content", "userId", "timestamp"}
      [] tool = "addFile" ->
           {"sessionId", "correlationId", "fileBase64", "fileName",
            "fileContentType", "timestamp"}
      [] tool = "intermediateResults" ->
           {"sessionId", "correlationId", "resourceName", "userId", "timestamp"}
      [] tool = "processingResult" ->
           {"sessionId", "correlationId", "processingTime", "userId", "timestamp"}

\* z.string() accepts every string, the empty one included, and rejects
\* undefined unless the field is optional; a call without a parameter object
\* is rejected as a whole.
SchemaOk(tool, given, p) ==
    given /\ \A f \in RequiredFields(tool) : p[f] # UNDEF

-----------------------------------------------------------------------------
(* The tool handlers, up to the outbound fetch *)

\* What a handler has done when it first suspends or returns:
\*   step "fetch"     the POST is issued with formData and the auth header
\*   step "returned"  it returned `result` without fetching
\*   step "threw"     its promise rejected with `message`
Started(step, fd, auth, result, message) ==
    [step |-> step, formData |-> fd, auth |-> auth, result |-> result,
     message |-> message]

\* Outcome of building the form data: built, or thrown with a message, or
\* (part_002) answered at once with an error result.
Built(fd) == [kind |-> "built", formData |-> fd, message |-> ""]

Thrown(message) == [kind |-> "thrown", formData |-> <<>>, message |-> message]

Answered(message) == [kind |-> "answered", formData |-> <<>>, message |-> message]

\* A union that tests the file fields first: what the handlers would do
\* with the two tests of the union exchanged.
UnionBranchFileFirst(p) ==
    IF Truthy(p.fileBase64) /\ Truthy(p.fileName) /\ Truthy(p.fileContentType)
    THEN "file"
    ELSE IF Truthy(p.content) THEN "content" ELSE "none"

\* `if (content) ... else if (fileBase64 && fileName && fileContentType) ...
\* else ...`: which branch the content/file union takes.
UnionBranch(p) ==
    IF Truthy(p.content) THEN "content"
    ELSE IF Truthy(p.fileBase64) /\ Truthy(p.fileName) /\ Truthy(p.fileContentType)
         THEN "file"
         ELSE "none"

\* The parts the union appends after `head`, followed by `tail`.
UnionParts(p, head, tail, onNone) ==
    CASE UnionBranch(p) = "content" ->
           Built(head \o <<TextPart("content", p.content)>> \o tail)
      [] UnionBranch(p) = "file" ->
           IF AtobOk(p.fileBase64)
           THEN Built(head \o <<FilePart(p.fileBase64, p.fileName, p.fileContentType)>> \o tail)
           ELSE Thrown(AtobErrorMessage)
      [] OTHER -> onNone

\* A handler that never sends userId.
UserIdPartDropped(p) == <<>>

\* if (userId) formData.append("userId", userId): an empty userId is not sent.
UserIdPart(p) == IF Truthy(p.userId) THEN <<TextPart("userId", p.userId)>> ELSE <<>>

\* src/src/index.ts, part_001 and part_002: inputPrompt appends the five
\* fields in the same order.
BuildInputPrompt(p) ==
    Built(<<TextPart("sessionId", p.sessionId),
            TextPart("correlationId", p.correlationId),
            TextPart("content", p.content),
            TextPart("userId", p.userId),
            TextPart("timestamp", p.timestamp)>>)

\* addFile: atob(fileBase64) throws on text that is not base64.
BuildAddFile(p) ==
    IF ~AtobOk(p.fileBase64) THEN Thrown(AtobErrorMessage)
    ELSE Built(<<TextPart("sessionId", p.sessionId),
                 TextPart("correlationId", p.correlationId),
                 FilePart(p.fileBase64, p.fileName, p.fileContentType)>>
               \o UserIdPart(p)
               \o <<TextPart("timestamp", p.timestamp)>>)

\* part_001: the union comes before userId and timestamp, and a call with
\* neither content nor a whole file throws inside the try block.
BuildUnion001(p, own) ==
    UnionParts(p,
        <<TextPart("sessionId", p.sessionId),
          TextPart("correlationId", p.correlationId),
          TextPart(own, p[own])>>,
        <<TextPart("userId", p.userId), TextPart("timestamp", p.timestamp)>>,
        Thrown("Either content or file information must be provided"))

\* part_002: the union comes last, and a call with neither returns the
\* error result itself.
BuildUnion002(p, own) ==
    UnionParts(p,
        <<TextPart("sessionId", p.sessionId),
          TextPart("correlationId", p.correlationId),
          TextPart(own, p[own]),
          TextPart("userId", p.userId),
          TextPart("timestamp", p.timestamp)>>,
        <<>>,
        Answered("Either content or file (with fileName and fileContentType) must be provided"))

OwnField(tool) ==
    IF tool = "intermediateResults" THEN "resourceName" ELSE "processingTime"

BuildFormData(d, tool, p) ==
    CASE tool = "inputPrompt" -> BuildInputPrompt(p)
      [] tool = "addFile"     -> BuildAddFile(p)
      [] OTHER -> IF d = "part_001" THEN BuildUnion001(p, OwnField(tool))
                  ELSE BuildUnion002(p, OwnField(tool))

\* index.ts: the three handlers that are placeholders.
IsPlaceholder(d, tool) == d = "index_ts" /\ tool # "inputPrompt"

PlaceholderText(tool) ==
    CASE tool = "addFile"             -> "File upload simulation"
      [] tool = "intermediateResults" -> "Intermediate results simulation"
      [] OTHER                        -> "Processing result simulation"

\* part_001 only: `const apiKey = this.env.COMPLIQ_API_KEY || "";
\* if (!apiKey) throw new Error("API key is not configured")`.
ChecksApiKey(d) == d = "part_001"

\* The Authorization header: index.ts and part_001 read `KEY || ""`,
\* part_002 interpolates the value as it is.
AuthHeader(d, key) ==
    IF d = "part_002" THEN "x-api-key " \o Str(key)
    ELSE "x-api-key " \o (IF Truthy(key) THEN key ELSE "")

\* part_001 destructures the parameter object in the handler's parameter
\* list, outside its try block; part_002 destructures inside the try block.
DestructuresOutsideTry(d) == d \in {"part_001", "index_ts"}

DestructureMessage == "Cannot destructure property 'sessionId' of 'undefined'"

\* The handler from its invocation to its first suspension or its return.
HandlerStart(d, tool, given, p, key) ==
    IF ~given /\ DestructuresOutsideTry(d)
    THEN Started("threw", <<>>, "", NoResult, DestructureMessage)
    ELSE IF ~given
    THEN Started("returned", <<>>, "", CatchResult(DestructureMessage), "")
    ELSE IF IsPlaceholder(d, tool)
    THEN Started("returned", <<>>, "", ToolResult(<<PlaceholderText(tool)>>), "")
    ELSE LET b == BuildFormData(d, tool, p) IN
         CASE b.kind = "thrown" ->
                Started("returned", <<>>, "", CatchResult(b.message), "")
           [] b.kind = "answered" ->
                Started("returned", <<>>, "", ToolResult(<<"Error: ", b.message>>), "")
           [] OTHER ->
                IF ChecksApiKey(d) /\ ~Truthy(key)
                THEN Started("returned", b.formData, "",
                             CatchResult("API key is not configured"), "")
                ELSE Started("fetch", b.formData, AuthHeader(d, key), NoResult, "")

\* A handler that returns the body of a successful response as received,
\* without parsing and serializing it.
HandlerFinishRawBody(up) ==
    IF up.kind = "throws" THEN CatchResult(up.msg)
    ELSE IF ~ResponseOk(up.status)
    THEN ToolResult(<<"Error: ", ToString(up.status), " - ", up.body>>)
    ELSE ToolResult(<<up.body>>)

\* A handler whose catch block reports the bare message of the error.
HandlerFinishBareMessage(up) ==
    IF up.kind = "throws" THEN ToolResult(<<up.msg>>)
    ELSE IF ~ResponseOk(up.status)
    THEN ToolResult(<<"Error: ", ToString(up.status), " - ", up.body>>)
    ELSE IF JsonOk(up.body)
    THEN ToolResult(<<JsonStringify(JsonParse(up.body))>>)
    ELSE CatchResult(JsonErrorMessage(up.body))

\* The handler from the settling of fetch() to its return.
HandlerFinish(up) ==
    IF up.kind = "throws" THEN CatchResult(up.msg)
    ELSE IF ~ResponseOk(up.status)
    THEN ToolResult(<<"Error: ", ToString(up.status), " - ", up.body>>)
    ELSE IF JsonOk(up.body)
    THEN ToolResult(<<JsonStringify(JsonParse(up.body))>>)
    ELSE CatchResult(JsonErrorMessage(up.body))

-----------------------------------------------------------------------------
(* Calls the model makes *)

Sample(f) ==
    CASE f = "sessionId"       -> "sess-1"
      [] f = "correlationId"   -> "corr-1"
      [] f = "timestamp"       -> "01-31-2025 10:00:00"
      [] f = "userId"          -> "user-1"
      [] f = "resourceName"    -> "search"
      [] f = "processingTime"  -> "00:00:05"
      [] f = "content"         -> "hello"
      [] f = "fileBase64"      -> "QUJD"
      [] f = "fileName"        -> "a.pdf"
      [] f = "fileContentType" -> "pdf"

UnionFields == {"content", "fileBase64", "fileName", "fileContentType"}

ScalarFields(tool) == ToolFields(tool) \ UnionFields

ContentValues == {UNDEF, "", "hello"}

Base64Values == {UNDEF, "", "QUJD", "%%%"}

FileNameValues == {UNDEF, "a.pdf"}

FileTypeValues == {UNDEF, "pdf", "PDF"}

UserIdValues == {"", "user-1"}

NoParams == [f \in Fields |-> UNDEF]

MkParams(tool, missing, cont, fb, fn, fct, uid) ==
    [f \in Fields |->
        IF f \notin ToolFields(tool) THEN UNDEF
        ELSE CASE f = "content"         -> cont
               [] f = "fileBase64"      -> fb
               [] f = "fileName"        -> fn
               [] f = "fileContentType" -> fct
               [] OTHER -> IF f \in missing THEN UNDEF
                           ELSE IF f = "userId" THEN uid ELSE Sample(f)]

\* Every parameter object the model sends to `tool`: each union field takes
\* each of its values, and at most MaxMissing scalar fields are left out;
\* a call that leaves none out is sent with an empty userId too.
ParamSpace(tool) ==
    UNION {{MkParams(tool, missing, cont, fb, fn, fct, uid) :
                cont \in ContentValues, fb \in Base64Values,
                fn \in FileNameValues, fct \in FileTypeValues,
                uid \in (IF missing = {} THEN UserIdValues ELSE {Sample("userId")})} :
           missing \in {m \in SUBSET ScalarFields(tool) : Cardinality(m) <= MaxMissing}}

\* Calls that satisfy the tool's schema and name one side of the union.
SampleParams(tool) ==
    {MkParams(tool, {}, cont, fb, "a.pdf", "pdf", "user-1") :
        cont \in {UNDEF, "hello"}, fb \in {"QUJD"}}

\* No key, the empty key, a five-character key and a longer one.
ApiKeys == {UNDEF, "", "sk-12", "secret-key-0123"}

-----------------------------------------------------------------------------
(* State of a tool call *)

IdleCall ==
    [phase |-> "idle", tool |-> "inputPrompt", given |-> FALSE,
     params |-> NoParams, invoked |-> FALSE, outcome |-> "none",
     formData |-> <<>>, posted |-> FALSE, url |-> "", auth |-> "",
     result |-> NoResult, message |-> "", upstream |-> NoUpstream]

\* Tools reach their handler through the framework's schema validation in
\* index.ts (this.server.handleMcp) and part_002 (McpAgent.serve); part_001
\* calls this.server.getToolHandler(toolName)(toolParams) itself.
ViaFramework(d) == d # "part_001"

\* The framework's answer to parameters that fail the schema: a validation
\* error result; the handler is not invoked.
FrameworkReject == ToolResult(<<"Error: ", "Invalid arguments">>)

\* MyMCP.fetch: `if (!this.initialized) { await this.initServer();
\* this.initialized = true; }`, initServer registering the four tools.
ToolsAfterInit ==
    IF initialized THEN tools ELSE [t \in ToolNames |-> tools[t] + 1]

StartCall(tool, given, p) ==
    /\ call.phase = "idle"
    /\ initialized' = TRUE
    /\ tools' = ToolsAfterInit
    /\ IF ViaFramework(draft) /\ ~SchemaOk(tool, given, p)
       THEN call' = [IdleCall EXCEPT !.phase = "done", !.tool = tool,
                        !.given = given, !.params = p,
                        !.outcome = "rejected", !.result = FrameworkReject]
       ELSE LET h == HandlerStart(draft, tool, given, p, apiKey) IN
            call' = [IdleCall EXCEPT
                        !.phase = IF h.step = "fetch" THEN "awaiting" ELSE "done",
                        !.tool = tool, !.given = given, !.params = p,
                        !.invoked = TRUE,
                        !.outcome = IF h.step = "fetch" THEN "none" ELSE h.step,
                        !.formData = h.formData,
                        !.posted = (h.step = "fetch"),
                        !.url = IF h.step = "fetch" THEN Endpoint(tool) ELSE "",
                        !.auth = h.auth,
                        !.result = h.result,
                        !.message = h.message]
    /\ UNCHANGED <<http, draft, apiKey, decoder, sse, sseClients, mcpClients>>

\* A tool call with any parameters of the tool's parameter space, or with
\* no parameter object at all.
ToolCall ==
    \E tool \in ToolNames :
        \E given \in BOOLEAN :
            \E p \in (IF given THEN ParamSpace(tool) ELSE {NoParams}) :
                StartCall(tool, given, p)

\* A tool call whose parameters satisfy the schema.
SampleToolCall ==
    \E tool \in ToolNames :
        \E p \in SampleParams(tool) :
            StartCall(tool, TRUE, p)

\* fetch() settles: it rejects, or resolves with a response.
UpstreamResponds ==
    \E up \in UpstreamOutcomes :
        /\ call.phase = "awaiting"
        /\ call' = [call EXCEPT !.phase = "done", !.outcome = "returned",
                                !.upstream = up, !.result = HandlerFinish(up)]
        /\ UNCHANGED <<http, draft, apiKey, decoder, initialized, tools, sse, sseClients, mcpClients>>

\* The answer has gone back to the caller; the next call may start.
CallEnds ==
    /\ call.phase = "done"
    /\ call' = IdleCall
    /\ UNCHANGED <<http, draft, apiKey, decoder, initialized, tools, sse, sseClients, mcpClients>>

-----------------------------------------------------------------------------
(* The API key as characters *)

\* The characters of a key, for substring and containment.
Chars(key) ==
    CASE key = "secret-key-0123" ->
             <<"s", "e", "c", "r", "e", "t", "-", "k", "e", "y", "-",
               "0", "1", "2", "3">>
      [] key = "sk-12" -> <<"s", "k", "-", "1", "2">>
      [] OTHER -> <<>>

Min(a, b) == IF a < b THEN a ELSE b

\* String.prototype.substring(from, to) for 0 <= from <= to.
Substring(s, from, to) == SubSeq(s, from + 1, Min(to, Len(s)))

\* apiKeyValue.substring(0, 5)
KeyPrefix(s, n) == Substring(s, 0, n)

\* typeof apiKey === 'string' && apiKey.length > 0
HasRealValue(key) == key # UNDEF /\ Len(Chars(key)) > 0

\* needle occurs in hay as a run of consecutive characters.
Occurs(needle, hay) ==
    \E i \in 1..(Len(hay) - Len(needle) + 1) :
        SubSeq(hay, i, i + Len(needle) - 1) = needle

Ellipsis == <<".", ".", ".">>

-----------------------------------------------------------------------------
(* HTTP requests and responses *)

Methods == {"GET", "POST", "OPTIONS"}

Paths == {"/health", "/mcp", "/sse", "/sse/message", "/unknown"}

\* url.pathname === "/mcp" || "/sse" || "/sse/message"
ObjectPaths == {"/mcp", "/sse", "/sse/message"}

SsePaths == {"/sse", "/sse/message"}

\* Bodies of a request to /mcp: text that is not JSON; the JSON value
\* null; {"method":"describe"}; {"method":"ping"}; a `run` naming a tool
\* that is not registered; a `run` without `params`.
McpBodies ==
    {"not json", "null", "describe", "ping", "run unknown tool",
     "run without params"}

\* Where an exception is raised while the request is served: nowhere; in
\* env.MCP_OBJECT / doStub.fetch; in initServer; in handleSse before the
\* stream exists; in the MCP server's own request handling.
Faults == {"none", "forward", "init", "sse", "server"}

Request(method, path, body, fault) ==
    [method |-> method, path |-> path, body |-> body, fault |-> fault]

\* The requests told apart: the body counts for a request to /mcp that is
\* no preflight, a fault for the path whose handling can raise it.
Requests ==
    {r \in {Request(me, pa, bo, fa) :
                me \in Methods, pa \in Paths, bo \in McpBodies, fa \in Faults} :
        /\ (r.path # "/mcp" \/ r.method = "OPTIONS") => r.body = "not json"
        /\ r.path \notin ObjectPaths => r.fault = "none"
        /\ r.fault = "sse" => r.path \in SsePaths
        /\ r.fault = "server" => r.path = "/mcp"}

CorsThree ==
    {<<"Access-Control-Allow-Origin", "*">>,
     <<"Access-Control-Allow-Methods", "GET, POST, OPTIONS">>,
     <<"Access-Control-Allow-Headers", "*">>}

MaxAge == <<"Access-Control-Max-Age", "86400">>

ContentType(type) == <<"Content-Type", type>>

\* headers.set(name, value)
SetHeader(headers, pair) ==
    {h \in headers : h[1] # pair[1]} \cup {pair}

\* A response: status, kind of body ("null", "text", "json", "stream"),
\* headers, the branch that built it, the JSON-RPC error code (0: none),
\* whether error.data holds a stack, whether the durable object was
\* called, and the key-derived texts it shows.
Response(status, body, headers, route) ==
    [status |-> status, body |-> body, headers |-> headers, route |-> route,
     code |-> 0, stack |-> FALSE, forwarded |-> FALSE, shown |-> {}]

\* No response: nothing answered yet, or the exception left fetch.
NoResponse == Response(0, "null", {}, "none")

NoRequest == Request("", "", "", "none")

NoExchange == [request |-> NoRequest, response |-> NoResponse, logged |-> {}]

Escaped == Response(0, "null", {}, "escaped")

JsonRpcError(status, code, stack) ==
    [Response(status, "json", {ContentType("application/json")}, "mcp")
        EXCEPT !.code = code, !.stack = stack]

JsonRpcResult ==
    Response(200, "json", {ContentType("application/json")}, "mcp")

\* handleCors()
handleCors == Response(200, "null", CorsThree \cup {MaxAge}, "preflight")

\* addCorsHeaders(response): four headers set, body and status kept.
addCorsHeaders(r) ==
    [r EXCEPT !.headers =
        SetHeader(SetHeader(SetHeader(SetHeader(@,
            <<"Access-Control-Allow-Origin", "*">>),
            <<"Access-Control-Allow-Methods", "GET, POST, OPTIONS">>),
            <<"Access-Control-Allow-Headers", "*">>),
            MaxAge)]

\* The Response handleSse returns with the readable end of the stream.
SseResponse(d) ==
    Response(200, "stream",
             {ContentType("text/event-stream"),
              <<"Cache-Control", IF d = "part_001"
                                 THEN "no-store, no-transform"
                                 ELSE "no-cache, no-transform">>,
              <<"Connection", "keep-alive">>},
             "sse")

\* The catch block of handleSse: 500 with the error text.
SseErrorResponse ==
    Response(500, "text", {ContentType("text/plain")}, "sse error")

\* part_001 handleMcp for a body that needs no tool handler.
handleMcp001(req) ==
    CASE req.body \in {"not json", "null"} -> JsonRpcError(400, -32700, FALSE)
      [] req.body = "describe" ->
             IF req.fault = "server"
             THEN JsonRpcError(400, -32700, FALSE)
             ELSE JsonRpcResult
      [] req.body \in {"run unknown tool", "run without params"} ->
             JsonRpcError(200, -32000, TRUE)
      [] OTHER -> JsonRpcError(200, -32601, FALSE)

\* index.ts handleMcp: request.json(), this.server.handleMcp(body), one
\* catch block for both.
handleMcpIndex(req) ==
    IF req.body = "not json" \/ req.fault = "server"
    THEN JsonRpcError(500, -32603, TRUE)
    ELSE [JsonRpcResult EXCEPT !.route = "server"]

NotFound == Response(404, "text", {}, "not found")

\* The request is one whose handleSse goes on to open a stream.
OpensStream(req) ==
    /\ req.method # "OPTIONS"
    /\ req.path \in SsePaths
    /\ req.fault \notin {"forward", "sse"}

\* index.ts MyMCP.fetch; Escaped when initServer throws.
ObjectFetchIndex(req, inited) ==
    IF ~inited /\ req.fault = "init" THEN Escaped
    ELSE IF req.method = "OPTIONS" THEN handleCors
    ELSE IF req.path \in SsePaths
         THEN addCorsHeaders(IF req.fault = "sse" THEN SseErrorResponse
                             ELSE SseResponse("index_ts"))
    ELSE IF req.path = "/mcp" THEN addCorsHeaders(handleMcpIndex(req))
    ELSE addCorsHeaders(NotFound)

\* part_001 MyMCP.fetch.
ObjectFetch001(req, inited) ==
    IF ~inited /\ req.fault = "init"
    THEN Response(500, "text", {}, "init failed")
    ELSE IF req.method = "OPTIONS" THEN handleCors
    ELSE IF req.path \in SsePaths
         THEN addCorsHeaders(IF req.fault = "sse" THEN SseErrorResponse
                             ELSE SseResponse("part_001"))
    ELSE IF req.path = "/mcp" THEN addCorsHeaders(handleMcp001(req))
    ELSE addCorsHeaders(NotFound)

ObjectFetch(d, req, inited) ==
    IF d = "index_ts" THEN ObjectFetchIndex(req, inited)
    ELSE ObjectFetch001(req, inited)

\* The worker's preflight answer.
Preflight == Response(200, "null", CorsThree \cup {MaxAge}, "preflight")

\* The worker's /health answer of index.ts and part_001:
\* apiKeyFirstChars is apiKeyValue.substring(0, 5) + "...".
HealthResponse(key) ==
    [Response(200, "json",
              {ContentType("application/json")} \cup CorsThree, "health")
        EXCEPT !.shown = IF HasRealValue(key)
                         THEN {KeyPrefix(Chars(key), 5) \o Ellipsis}
                         ELSE {}]

\* The worker's catch block.
WorkerError ==
    Response(500, "text", {ContentType("text/plain")} \cup CorsThree,
             "worker error")

\* The worker fetch of index.ts and part_001.
WorkerRoute(d, req, key, inited) ==
    IF req.method = "OPTIONS" THEN Preflight
    ELSE IF req.path = "/health" THEN HealthResponse(key)
    ELSE IF req.path \in ObjectPaths
         THEN IF req.fault = "forward" THEN WorkerError
              ELSE LET r == ObjectFetch(d, req, inited)
                   IN [(IF r = Escaped THEN WorkerError ELSE r)
                          EXCEPT !.forwarded = TRUE]
    ELSE Response(404, "text", CorsThree, "not found")

\* What MyMCP.serve("/mcp") / MyMCP.serveSSE("/sse") of the agents
\* framework answer; the source sets none of its headers.
FrameworkResponse(req) ==
    [Response(200, IF req.path \in SsePaths THEN "stream" ELSE "json", {},
              "framework")
        EXCEPT !.forwarded = TRUE]

\* part_002 worker fetch: no try block, no look at request.method.
WorkerRoute002(req) ==
    IF req.path \in ObjectPaths
    THEN IF req.fault = "forward" THEN Escaped ELSE FrameworkResponse(req)
    ELSE IF req.path = "/health"
         THEN Response(200, "json", {ContentType("application/json")}, "health")
    ELSE NotFound

WorkerResponse(d, req, key, inited) ==
    IF d = "part_002" THEN WorkerRoute002(req)
    ELSE WorkerRoute(d, req, key, inited)

\* Key-derived texts the console receives while the request is served:
\* index.ts logs apiKeyValue.substring(0, 5) in the worker on every
\* request and in initServer when it runs; part_001 and part_002 log
\* whether a key exists.
Logged(d, key) ==
    IF d = "index_ts" /\ HasRealValue(key)
    THEN {KeyPrefix(Chars(key), 5)}
    ELSE {}

\* The exchange of a request to /sse whose stream was opened: the worker
\* forwards it and MyMCP.fetch returns addCorsHeaders(response).
SseExchange(d, key, fault) ==
    [request |-> Request("GET", "/sse", "not json", fault),
     response |-> [addCorsHeaders(SseResponse(d)) EXCEPT !.forwarded = TRUE],
     logged |-> Logged(d, key)]

-----------------------------------------------------------------------------
(* SSE connections: MyMCP.handleSse, its heartbeat and its teardown *)

Clients == 1..MaxClients

\* `data:` of a frame.  part_001 puts the generated clientId in the
\* `connected` and `heartbeat` frames; index.ts writes the literals
\* "connected" and "ping"; a forwarded event carries JSON.stringify(data).
FrameData(d, event, id) ==
    CASE event = "connected" -> IF d = "part_001" THEN id ELSE "connected"
      [] event = "heartbeat" -> IF d = "part_001" THEN id ELSE "ping"
      [] event = "error"     -> "{\"error\":\"Error\"}"
      [] OTHER               -> "{}"

\* An SSE frame: `event: <event>\ndata: ...\n\n`; n tells the heartbeats
\* and the forwarded events of a connection apart; whole says the chunk
\* holds the frame from its `event:` line to its blank line.
Frame(d, event, n, id) ==
    [event |-> event, n |-> n, data |-> FrameData(d, event, id), whole |-> TRUE]

\* clientId = Math.random().toString(36).substring(2, 10): up to eight
\* characters, none when Math.random() returns 0, and nothing keeps two
\* connections from drawing the same one.  The registry is keyed by the
\* writer, not by this identifier, so one sample draw per connection is
\* modelled: the second connection draws the empty identifier and a third
\* one repeats the first.
ClientIds == {"k3x9q2ab", ""}

NewClientId(c) == IF c = 2 THEN "" ELSE "k3x9q2ab"

\* A write that puts each line of the frame in a chunk of its own.
WriteFrameInLines(q, frame) ==
    q \o <<[frame EXCEPT !.whole = FALSE], [frame EXCEPT !.whole = FALSE]>>

\* A write that goes before the writes still queued.
WriteFrameFirst(q, frame) == <<frame>> \o q

\* writer.write(encoder.encode(message)): the whole frame is one chunk,
\* queued behind the chunks written before it.
WriteFrame(q, frame) == Append(q, frame)

\* One connection.
\*   phase     "none"  no request yet
\*             "connecting"  handleSse awaits the write of `connected`
\*             "reporting"   index.ts awaits the write of the `error` event
\*             "open"  the Response with the readable end has been returned
\*   writer    "open", "closing" (close() called, writes still queued),
\*             "closed", "errored" (the stream broke)
\*   queue     frames written with writer.write() that the stream has not
\*             taken yet; frames: the frames the stream has taken, in order
\*   timer     the setInterval heartbeat is active
\*   clientId  the identifier part_001 generates for its log lines and frames
\*   listener  the abort listener is registered; aborted: the signal fired
\*   ticks, events  heartbeat callbacks run, protocol events forwarded
\*   failed    heartbeat writes that rejected; cleanups: teardowns run
\*   sendError what became of the last forwarded event whose write rejected
\*   unhandled a rejection or exception that no handler caught
\*   slack     the stream takes a chunk before any reader asks for one.  The
\*             readable side of new TransformStream() has a high-water mark
\*             of 0 and takes none, so a write stays pending until a read; a
\*             runtime whose identity stream buffers takes it at once.  The
\*             source fixes neither the runtime nor its compatibility date;
\*             the connections of one worker share the runtime.
NoConnection ==
    [phase |-> "none", writer |-> "open", queue |-> <<>>, frames |-> <<>>,
     timer |-> FALSE, listener |-> FALSE, aborted |-> FALSE,
     clientId |-> UNDEF, ticks |-> 0, events |-> 0, failed |-> 0, cleanups |-> 0,
     sendError |-> "none", unhandled |-> FALSE, slack |-> FALSE]

\* The state the SSE code works on, as one value.
SseState(conns, tracked, registered) ==
    [sse |-> conns, clients |-> tracked, mcp |-> registered]

HasSse(d) == d \in {"index_ts", "part_001"}

\* part_001 keeps this.sseClients; index.ts keeps no registry.
TracksClients(d) == d = "part_001"

\* writer.close(): an open writer closes once its queued writes are taken;
\* on a writer that is closing, closed or errored the promise rejects.
CloseWriter(w, queue) ==
    IF w = "open" THEN (IF queue = <<>> THEN "closed" ELSE "closing") ELSE w

\* Whether the promise of writer.close() rejects.
CloseRejects(w) == w # "open"

\* `writer.close().catch(e => console.error(...))`, `try { await
\* writer.close() } catch {}`: the rejection of close() has a handler.
CloseRejectionHandled == TRUE

\* A cleanup that deletes the client and closes the writer but leaves the
\* interval running.
CleanupClientKeepsInterval(st, c) ==
    [st EXCEPT
        !.clients = @ \ {c},
        !.sse[c].writer = CloseWriter(@, st.sse[c].queue),
        !.sse[c].cleanups = @ + 1]

\* A cleanup without the `client.writer === writer` test: every tracked
\* client has its interval cleared and is deleted.
CleanupClientEveryClient(st, c) ==
    [st EXCEPT
        !.clients = {},
        !.sse = [o \in DOMAIN st.sse |->
                    IF o = c
                    THEN [st.sse[o] EXCEPT
                            !.timer = FALSE,
                            !.writer = CloseWriter(@, st.sse[o].queue),
                            !.cleanups = @ + 1]
                    ELSE IF o \in st.clients
                    THEN [st.sse[o] EXCEPT !.timer = FALSE]
                    ELSE st.sse[o]]]

\* part_001 cleanupClient(writer, interval, clientId): every tracked client
\* with this writer has its interval cleared and is deleted; then
\* `try { writer.close().catch(...) } catch (e) { ... }`.
CleanupClient(st, c) ==
    LET tracked == c \in st.clients
        w == st.sse[c].writer
    IN [st EXCEPT
            !.clients = @ \ {c},
            !.sse[c].timer = IF tracked THEN FALSE ELSE @,
            !.sse[c].writer = CloseWriter(w, st.sse[c].queue),
            !.sse[c].unhandled = @ \/ (CloseRejects(w) /\ ~CloseRejectionHandled),
            !.sse[c].cleanups = @ + 1]

\* index.ts, heartbeat catch block and abort listener alike:
\* clearInterval(heartbeatInterval), then writer.close() with its rejection
\* caught (`try { await writer.close() } catch {}`, `.catch(console.error)`).
TeardownIndex(st, c) ==
    [st EXCEPT
        !.sse[c].timer = FALSE,
        !.sse[c].writer = CloseWriter(@, st.sse[c].queue),
        !.sse[c].unhandled =
            @ \/ (CloseRejects(st.sse[c].writer) /\ ~CloseRejectionHandled),
        !.sse[c].cleanups = @ + 1]

\* A catch block that only logs the error.
HeartbeatFailedOnlyLogs(d, st, c) ==
    [st EXCEPT !.sse[c].failed = @ + 1]

\* The catch block of the heartbeat callback.
HeartbeatFailed(d, st, c) ==
    LET counted == [st EXCEPT !.sse[c].failed = @ + 1]
    IN IF TracksClients(d) THEN CleanupClient(counted, c)
       ELSE TeardownIndex(counted, c)

RECURSIVE HeartbeatFailedTimes(_, _, _, _)
\* The catch block run once for each of n heartbeat writes that reject.
HeartbeatFailedTimes(d, st, c, n) ==
    IF n = 0 THEN st
    ELSE HeartbeatFailedTimes(d, HeartbeatFailed(d, st, c), c, n - 1)

\* The abort listener: part_001 removes the handler from the MCP server
\* (an exception of removeSseClient is caught) and cleans the client up;
\* index.ts clears the interval and closes the writer.
AbortListener(d, st, c, removeOk) ==
    LET fired == [st EXCEPT !.sse[c].aborted = TRUE]
    IN IF TracksClients(d)
       THEN CleanupClient(
                [fired EXCEPT !.mcp = IF removeOk THEN @ \ {c} ELSE @], c)
       ELSE TeardownIndex(fired, c)

Pending(q, event) == Cardinality({i \in 1..Len(q) : q[i].event = event})

RECURSIVE Total(_, _, _)
\* The sum of a counter over the connections of S.
Total(conns, S, counter) ==
    IF S = {} THEN 0
    ELSE LET c == CHOOSE x \in S : TRUE
         IN conns[c][counter] + Total(conns, S \ {c}, counter)

Current == SseState(sse, sseClients, mcpClients)

\* The SSE variables take the values of st.
SseBecomes(st) ==
    /\ sse' = st.sse
    /\ sseClients' = st.clients
    /\ mcpClients' = st.mcp

\* A request to /sse or /sse/message: the server is initialized if it was
\* not, handleSse makes the stream and its writer and awaits the write of
\* the `connected` event.
SseConnect ==
    \E c \in Clients :
        \E id \in (IF TracksClients(draft) THEN {NewClientId(c)} ELSE {UNDEF}),
           slack \in (IF c = 1 THEN BOOLEAN ELSE {sse[1].slack}) :
        /\ HasSse(draft)
        /\ sse[c].phase = "none"
        /\ \A b \in Clients : b < c => sse[b].phase # "none"
        /\ initialized' = TRUE
        /\ tools' = ToolsAfterInit
        /\ sse' = [sse EXCEPT
                      ![c].phase = "connecting",
                      ![c].clientId = id,
                      ![c].slack = slack,
                      ![c].queue = WriteFrame(@, Frame(draft, "connected", 0, id))]
        /\ UNCHANGED <<http, draft, apiKey, decoder, call, sseClients, mcpClients>>

\* A setup that starts the timer and leaves the client out of the registry.
Setup001Untracked(st, c, registerOk) ==
    [st EXCEPT
        !.mcp = IF registerOk THEN @ \cup {c} ELSE @,
        !.sse[c].timer = TRUE,
        !.sse[c].listener = TRUE,
        !.sse[c].phase = "open"]

\* part_001, after the first write: addSseClient(sseHandler) in its own
\* try block, setInterval, this.sseClients.add(client), the abort listener,
\* and the Response.
Setup001(st, c, registerOk) ==
    [st EXCEPT
        !.mcp = IF registerOk THEN @ \cup {c} ELSE @,
        !.clients = @ \cup {c},
        !.sse[c].timer = TRUE,
        !.sse[c].listener = TRUE,
        !.sse[c].phase = "open"]

\* index.ts, after the first write: this.server.handleSse({write, close}),
\* setInterval and the abort listener in one try block; when handleSse
\* throws, the catch block awaits the write of an `error` event.
SetupIndex(st, c, registerOk) ==
    IF registerOk
    THEN [st EXCEPT
            !.mcp = @ \cup {c},
            !.sse[c].timer = TRUE,
            !.sse[c].listener = TRUE,
            !.sse[c].phase = "open"]
    ELSE [st EXCEPT
            !.sse[c].phase = "reporting",
            !.sse[c].queue = WriteFrame(@, Frame("index_ts", "error", 0, UNDEF))]

\* The stream takes the `connected` frame, the awaited write resolves and
\* handleSse goes on to register the connection.  No reader holds the
\* readable end yet (the Response is built after this), so the stream takes
\* the frame only if it has slack.
SseSetup ==
    \E c \in Clients :
        \E registerOk \in BOOLEAN :
            /\ sse[c].phase = "connecting"
            /\ sse[c].writer = "open"
            /\ sse[c].slack
            /\ LET taken == [Current EXCEPT
                                !.sse[c].frames = @ \o <<Head(sse[c].queue)>>,
                                !.sse[c].queue = Tail(@)]
               IN SseBecomes(IF TracksClients(draft)
                             THEN Setup001(taken, c, registerOk)
                             ELSE SetupIndex(taken, c, registerOk))
            /\ http' = IF TracksClients(draft) \/ registerOk
                       THEN SseExchange(draft, apiKey,
                                IF registerOk THEN "none" ELSE "server")
                       ELSE http
            /\ UNCHANGED <<draft, apiKey, decoder, initialized, tools, call>>

\* index.ts: the stream takes the `error` frame; `await writer.close()`
\* and the Response follow.
SseReported ==
    \E c \in Clients :
        /\ sse[c].phase = "reporting"
        /\ sse[c].writer = "open"
        /\ sse[c].slack
        /\ sse' = [sse EXCEPT
                      ![c].frames = @ \o <<Head(sse[c].queue)>>,
                      ![c].queue = Tail(@),
                      ![c].writer = CloseWriter("open", Tail(sse[c].queue)),
                      ![c].phase = "open"]
        /\ http' = SseExchange(draft, apiKey, "server")
        /\ UNCHANGED <<draft, apiKey, decoder, initialized, tools, call, sseClients,
                       mcpClients>>

\* The interval fires: the callback writes a heartbeat frame.  On a writer
\* that is not open the write rejects and the catch block runs.
HeartbeatTick ==
    \E c \in Clients :
        /\ sse[c].timer
        /\ Total(sse, Clients, "ticks") < MaxTicks
        /\ sse[c].writer = "open" => Len(sse[c].queue) < MaxPending
        /\ LET ticked == [Current EXCEPT !.sse[c].ticks = @ + 1]
           IN SseBecomes(
                IF sse[c].writer = "open"
                THEN [ticked EXCEPT !.sse[c].queue =
                          WriteFrame(@, Frame(draft, "heartbeat",
                                              sse[c].ticks + 1, sse[c].clientId))]
                ELSE HeartbeatFailed(draft, ticked, c))
        /\ UNCHANGED <<http, draft, apiKey, decoder, initialized, tools, call>>

\* The stream takes the next queued frame of an open connection whose
\* client is still there; a closing writer with nothing left is closed.
Deliver ==
    \E c \in Clients :
        /\ sse[c].phase = "open"
        /\ sse[c].queue # <<>>
        /\ sse[c].writer \in {"open", "closing"}
        /\ ~sse[c].aborted
        /\ sse' = [sse EXCEPT
                      ![c].frames = @ \o <<Head(sse[c].queue)>>,
                      ![c].queue = Tail(@),
                      ![c].writer = IF @ = "closing" /\ Tail(sse[c].queue) = <<>>
                                    THEN "closed" ELSE @]
        /\ UNCHANGED <<http, draft, apiKey, decoder, initialized, tools, call, sseClients,
                       mcpClients>>

\* The client is gone and the stream breaks: the writer is errored, every
\* queued write rejects; each rejected heartbeat write runs its catch
\* block, a rejected forwarded event is caught in part_001's send and
\* reaches the MCP layer from index.ts's write.
StreamBreaks ==
    \E c \in Clients :
        /\ sse[c].phase = "open"
        /\ sse[c].writer \in {"open", "closing"}
        /\ LET q == sse[c].queue
               broken == [Current EXCEPT
                            !.sse[c].writer = "errored",
                            !.sse[c].queue = <<>>,
                            !.sse[c].sendError =
                                IF Pending(q, "message") = 0 THEN @
                                ELSE IF TracksClients(draft) THEN "caught"
                                ELSE "escaped"]
           IN SseBecomes(HeartbeatFailedTimes(draft, broken, c,
                                              Pending(q, "heartbeat")))
        /\ UNCHANGED <<http, draft, apiKey, decoder, initialized, tools, call>>

\* request.signal fires `abort`.
Abort ==
    \E c \in Clients :
        \E removeOk \in BOOLEAN :
            /\ sse[c].listener
            /\ ~sse[c].aborted
            /\ SseBecomes(AbortListener(draft, Current, c, removeOk))
            /\ UNCHANGED <<http, draft, apiKey, decoder, initialized, tools, call>>

\* The MCP layer sends a protocol event to a registered connection:
\* part_001 sseHandler.send (write in a try block, the error logged),
\* index.ts write (no try block).
ForwardEvent ==
    \E c \in mcpClients :
        /\ Total(sse, Clients, "events") < MaxEvents
        /\ sse[c].writer = "open" => Len(sse[c].queue) < MaxPending
        /\ sse' = [sse EXCEPT
                      ![c].events = @ + 1,
                      ![c].queue = IF sse[c].writer = "open"
                                   THEN WriteFrame(@, Frame(draft, "message",
                                                sse[c].events + 1, sse[c].clientId))
                                   ELSE @,
                      ![c].sendError =
                          IF sse[c].writer = "open" THEN @
                          ELSE IF TracksClients(draft) THEN "caught"
                          ELSE "escaped"]
        /\ UNCHANGED <<http, draft, apiKey, decoder, initialized, tools, call, sseClients,
                       mcpClients>>

\* index.ts: the MCP layer calls the `close` callback it was given:
\* `try { await writer.close() } catch (error) { console.error(...) }`.
ServerCloses ==
    \E c \in mcpClients :
        /\ ~TracksClients(draft)
        /\ sse[c].writer = "open"
        /\ sse' = [sse EXCEPT ![c].writer = CloseWriter(@, sse[c].queue)]
        /\ UNCHANGED <<http, draft, apiKey, decoder, initialized, tools, call, sseClients,
                       mcpClients>>

-----------------------------------------------------------------------------
(* Serving one request *)

\* The request reaches the MyMCP object (or the framework's agent).
ReachesObject(d, req) ==
    /\ req.path \in ObjectPaths
    /\ req.fault # "forward"
    /\ d = "part_002" \/ req.method # "OPTIONS"

\* The four registrations of initServer in source order.
ToolOrder ==
    <<"inputPrompt", "addFile", "intermediateResults", "processingResult">>

\* initServer threw at registration k + 1: the first k tools are
\* registered, `initialized` stays false.
ToolsAfterFailedInit(k) ==
    [t \in ToolNames |->
        IF \E i \in 1..k : ToolOrder[i] = t THEN tools[t] + 1 ELSE tools[t]]

\* One request served from the worker's fetch to its response, for every
\* request that is answered without opening a stream or calling a tool
\* handler.
WorkerFetch ==
    \E req \in Requests :
        \E k \in 0..(Len(ToolOrder) - 1) :
            /\ call.phase = "idle"
            /\ draft = "part_002" => req.fault \in {"none", "forward"}
            /\ HasSse(draft) =>
                  ~OpensStream(req) \/ (req.fault = "init" /\ ~initialized)
            /\ \/ k = 0
               \/ (req.fault = "init" /\ ~initialized /\ ReachesObject(draft, req))
            /\ (ReachesObject(draft, req) /\ ~initialized) =>
                  \A t \in ToolNames : tools[t] < MaxRegistrations
            /\ http' = [request |-> req,
                        response |-> WorkerResponse(draft, req, apiKey, initialized),
                        logged |-> Logged(draft, apiKey)]
            /\ IF ~ReachesObject(draft, req)
               THEN UNCHANGED <<initialized, tools>>
               ELSE IF req.fault = "init" /\ ~initialized
               THEN initialized' = FALSE /\ tools' = ToolsAfterFailedInit(k)
               ELSE initialized' = TRUE /\ tools' = ToolsAfterInit
            /\ UNCHANGED <<draft, apiKey, decoder, call, sse, sseClients, mcpClients>>


-----------------------------------------------------------------------------
(* Base64 to Blob: the decoding of fileBase64 *)

\* byteString.slice(offset, offset + 1024): characters per slice.
ChunkSize == 1024

\* Slices the longest enumerated file spans when it ends on a boundary.
MaxChunks == 2

\* Length up to which every sequence over ByteSamples is enumerated.
MaxShort == 3

ByteSamples == {0, 65, 255}

\* The base64 alphabet; the padding character is "=".
Alphabet ==
    <<"A", "B", "C", "D", "E", "F", "G", "H", "I", "J", "K", "L", "M",
      "N", "O", "P", "Q", "R", "S", "T", "U", "V", "W", "X", "Y", "Z",
      "a", "b", "c", "d", "e", "f", "g", "h", "i", "j", "k", "l", "m",
      "n", "o", "p", "q", "r", "s", "t", "u", "v", "w", "x", "y", "z",
      "0", "1", "2", "3", "4", "5", "6", "7", "8", "9", "+", "/">>

Sextet(ch) == (CHOOSE i \in 1..64 : Alphabet[i] = ch) - 1

\* The base64 encoding of a byte sequence, as a sequence of characters:
\* three bytes make four characters, the last group is padded with "=".
Btoa(bytes) ==
    LET n == Len(bytes)
        At(i) == IF i <= n THEN bytes[i] ELSE 0
        Char(k) ==
            LET g == k \div 4
                q == k % 4
                b0 == At(3 * g + 1)
                b1 == At(3 * g + 2)
                b2 == At(3 * g + 3)
            IN  CASE q = 0 -> Alphabet[(b0 \div 4) + 1]
                  [] q = 1 -> Alphabet[(b0 % 4) * 16 + (b1 \div 16) + 1]
                  [] q = 2 -> IF 3 * g + 2 > n THEN "="
                              ELSE Alphabet[(b1 % 16) * 4 + (b2 \div 64) + 1]
                  [] OTHER -> IF 3 * g + 3 > n THEN "="
                              ELSE Alphabet[(b2 % 64) + 1]
    IN  [k \in 1..(4 * ((n + 2) \div 3)) |-> Char(k - 1)]

\* atob(text) for padded base64 text: the trailing "=" are dropped, every
\* character gives six bits, every whole eight bits give one character of
\* the binary string (held as its character codes).
AtobString(text) ==
    LET m == Len(text)
        pad == IF m > 1 /\ text[m - 1] = "=" THEN 2
               ELSE IF m > 0 /\ text[m] = "=" THEN 1 ELSE 0
        n == m - pad
        S(i) == IF i <= n THEN Sextet(text[i]) ELSE 0
        Code(j) ==
            LET g == j \div 3
                r == j % 3
                s0 == S(4 * g + 1)
                s1 == S(4 * g + 2)
                s2 == S(4 * g + 3)
                s3 == S(4 * g + 4)
            IN  CASE r = 0 -> s0 * 4 + (s1 \div 16)
                  [] r = 1 -> (s1 % 16) * 16 + (s2 \div 4)
                  [] OTHER -> (s2 % 4) * 64 + s3
    IN  [j \in 1..((n * 6) \div 8) |-> Code(j - 1)]

\* A slice that stops one character short of the next offset.
SliceShort(s, offset) == SubSeq(s, offset + 1, Min(offset + ChunkSize - 1, Len(s)))

\* byteString.slice(offset, offset + 1024)
Slice(s, offset) == SubSeq(s, offset + 1, Min(offset + ChunkSize, Len(s)))

\* new Uint8Array(byteNumbers) with byteNumbers[i] = slice.charCodeAt(i)
Uint8Array(codes) == [i \in 1..Len(codes) |-> codes[i] % 256]

RECURSIVE BlobOf(_)
\* new Blob(byteArrays): the arrays one after another.
BlobOf(arrays) ==
    IF arrays = <<>> THEN <<>> ELSE BlobOf(SubSeq(arrays, 1, Len(arrays) - 1)) \o arrays[Len(arrays)]

\* The files decoded: every short sequence over ByteSamples, and longer
\* ones around each slice boundary.
Pattern(len, seed, step) == [i \in 1..len |-> (seed + (i - 1) * step) % 256]

ShortFiles == UNION {[1..n -> ByteSamples] : n \in 0..MaxShort}

BoundaryLengths ==
    UNION {{k * ChunkSize - 1, k * ChunkSize, k * ChunkSize + 1} : k \in 1..MaxChunks}

LongFiles ==
    {Pattern(len, seed, step) :
        len \in BoundaryLengths, seed \in {0, 255}, step \in {0, 1, 7}}

Files == ShortFiles \cup LongFiles

IdleDecoder ==
    [phase |-> "idle", bytes |-> <<>>, text |-> <<>>, byteString |-> <<>>,
     offset |-> 0, byteArrays |-> <<>>, blob |-> <<>>]

\* Which drafts decode fileBase64 (the addFile of index.ts is a placeholder).
Decodes(d) == d # "index_ts"

\* Which drafts decode in slices.
Chunked(d) == d = "part_002"

\* The caller encodes a file.
DecoderEncode ==
    /\ decoder.phase = "file"
    /\ decoder' = [decoder EXCEPT !.phase = "encoded", !.text = Btoa(decoder.bytes)]
    /\ UNCHANGED <<http, draft, apiKey, initialized, tools, call, sse, sseClients, mcpClients>>

\* const byteString = atob(fileBase64)
DecoderAtob ==
    /\ decoder.phase = "encoded"
    /\ decoder' = [decoder EXCEPT !.phase = "decoding",
                                  !.byteString = AtobString(decoder.text)]
    /\ UNCHANGED <<http, draft, apiKey, initialized, tools, call, sse, sseClients, mcpClients>>

\* part_002: one pass of the loop over offset.
DecoderChunk ==
    /\ decoder.phase = "decoding"
    /\ Chunked(draft)
    /\ decoder.offset < Len(decoder.byteString)
    /\ decoder' = [decoder EXCEPT
          !.byteArrays = Append(@, Uint8Array(Slice(decoder.byteString, decoder.offset))),
          !.offset = @ + ChunkSize]
    /\ UNCHANGED <<http, draft, apiKey, initialized, tools, call, sse, sseClients, mcpClients>>

\* part_002: the loop has ended; new Blob(byteArrays).
DecoderBlob ==
    /\ decoder.phase = "decoding"
    /\ Chunked(draft)
    /\ decoder.offset >= Len(decoder.byteString)
    /\ decoder' = [decoder EXCEPT !.phase = "done", !.blob = BlobOf(decoder.byteArrays)]
    /\ UNCHANGED <<http, draft, apiKey, initialized, tools, call, sse, sseClients, mcpClients>>

\* part_001: the whole string into one array; new Blob([bytes]).
DecoderWhole ==
    /\ decoder.phase = "decoding"
    /\ ~Chunked(draft)
    /\ decoder' = [decoder EXCEPT
          !.phase = "done",
          !.offset = Len(decoder.byteString),
          !.byteArrays = <<Uint8Array(decoder.byteString)>>,
          !.blob = BlobOf(<<Uint8Array(decoder.byteString)>>)]
    /\ UNCHANGED <<http, draft, apiKey, initialized, tools, call, sse, sseClients, mcpClients>>

-----------------------------------------------------------------------------
(* Specifications *)

vars ==
    <<http, draft, apiKey, initialized, tools, call, sse, sseClients, mcpClients,
      decoder>>

Init ==
    /\ http = NoExchange
    /\ draft \in Drafts
    /\ apiKey \in ApiKeys
    /\ initialized = FALSE
    /\ tools = [t \in ToolNames |-> 0]
    /\ call = IdleCall
    /\ sse = [c \in Clients |-> NoConnection]
    /\ sseClients = {}
    /\ mcpClients = {}
    /\ decoder = IdleDecoder

\* Tool calls with every enumerated parameter object.
NextTools == ToolCall \/ UpstreamResponds \/ CallEnds

SpecTools == Init /\ [][NextTools]_vars

\* SSE connections alone.
NextSse ==
    \/ SseConnect
    \/ SseSetup
    \/ SseReported
    \/ HeartbeatTick
    \/ Deliver
    \/ StreamBreaks
    \/ Abort
    \/ ForwardEvent
    \/ ServerCloses

SpecSse == Init /\ [][NextSse]_vars

\* SSE connections whose MCP layer forwards no protocol event: connecting,
\* heartbeats, delivery, breaking, abort and close.
NextTeardown ==
    \/ SseConnect
    \/ SseSetup
    \/ SseReported
    \/ HeartbeatTick
    \/ Deliver
    \/ StreamBreaks
    \/ Abort
    \/ ServerCloses

SpecTeardown == Init /\ [][NextTeardown]_vars

\* One SSE connection from its request to its end, with the heartbeat
\* timer, the MCP layer's forwarded events and the stream's deliveries
\* interleaved in every order.
SseConnectFirst == SseConnect /\ sse[1].phase = "none"

NextStream ==
    \/ SseConnectFirst
    \/ SseSetup
    \/ SseReported
    \/ HeartbeatTick
    \/ Deliver
    \/ StreamBreaks
    \/ Abort
    \/ ForwardEvent
    \/ ServerCloses

SpecStream == Init /\ [][NextStream]_vars

\* The same steps with the scheduling of the event loop: a handler whose
\* awaited write has resolved runs on.
SpecOpening ==
    /\ Init
    /\ [][NextStream]_vars
    /\ WF_vars(SseSetup)
    /\ WF_vars(SseReported)

\* Requests answered in one step.
NextHttp ==
    \/ WorkerFetch

SpecHttp == Init /\ [][NextHttp]_vars

\* Requests answered in one step, and a request to /sse up to its
\* response, with the exceptions each step can raise.
NextFaults ==
    \/ WorkerFetch
    \/ SseConnectFirst
    \/ SseSetup
    \/ SseReported

SpecFaults == Init /\ [][NextFaults]_vars

\* Tool calls served while SSE connections are opened and aborted.
NextCalls ==
    \/ SampleToolCall
    \/ UpstreamResponds
    \/ CallEnds
    \/ SseConnect
    \/ SseSetup
    \/ SseReported
    \/ Abort

SpecCalls == Init /\ [][NextCalls]_vars

\* The decoding of fileBase64 alone, over every enumerated file, in the
\* drafts that decode.
InitDecoder ==
    /\ http = NoExchange
    /\ draft \in {d \in Drafts : Decodes(d)}
    /\ apiKey = "sk-12"
    /\ initialized = FALSE
    /\ tools = [t \in ToolNames |-> 0]
    /\ call = IdleCall
    /\ sse = [c \in Clients |-> NoConnection]
    /\ sseClients = {}
    /\ mcpClients = {}
    /\ decoder \in {[IdleDecoder EXCEPT !.phase = "file", !.bytes = b] : b \in Files}

NextDecoder ==
    \/ DecoderEncode
    \/ DecoderAtob
    \/ DecoderChunk
    \/ DecoderBlob
    \/ DecoderWhole

SpecDecoder == InitDecoder /\ [][NextDecoder]_vars

\* The whole worker.
Next ==
    \/ WorkerFetch
    \/ ToolCall
    \/ SampleToolCall
    \/ UpstreamResponds
    \/ CallEnds
    \/ SseConnect
    \/ SseSetup
    \/ SseReported
    \/ HeartbeatTick
    \/ Deliver
    \/ StreamBreaks
    \/ Abort
    \/ ForwardEvent
    \/ ServerCloses

Spec == Init /\ [][Next]_vars

-----------------------------------------------------------------------------
(* Vocabulary of the claims *)

UnionTools == {"intermediateResults", "processingResult"}

\* { content: [{ type: "text", text }] } with exactly one text item.
WellFormedResult(r) ==
    /\ Len(r.content) = 1
    /\ r.content[1].type = "text"
    /\ Len(r.content[1].text) >= 1

ResultText(r) == r.content[1].text

StartsWithError(r) == WellFormedResult(r) /\ ResultText(r)[1] = "Error: "

\* The text has the form "Error: <status> - <body>".
IsStatusError(r) ==
    /\ StartsWithError(r)
    /\ Len(ResultText(r)) = 4
    /\ ResultText(r)[3] = " - "

\* Neither content nor all three file fields are in the parameters.
SuppliesNeither(p) ==
    /\ p.content = UNDEF
    /\ (p.fileBase64 = UNDEF \/ p.fileName = UNDEF \/ p.fileContentType = UNDEF)

MissingRequired(tool, given, p) ==
    ~given \/ \E f \in RequiredFields(tool) : p[f] = UNDEF

InSuccessRange(status) == status \in 200..299

-----------------------------------------------------------------------------
(* Claims C1 - C6: the tool handlers *)

\* C1: every invocation of a tool handler ends by returning a well-formed
\* ToolResult with exactly one text item, whatever the upstream did; no
\* exception leaves the handler.
C1_HandlerAlwaysReturnsToolResult ==
    (call.phase = "done" /\ call.invoked) =>
        (call.outcome = "returned" /\ WellFormedResult(call.result))

\* C2: for intermediateResults and processingResult, a call that supplies
\* neither content nor all three file fields gets an error ToolResult whose
\* text starts with "Error: ", and no upstream POST is issued.
C2_NeitherContentNorFileIsError ==
    (call.phase # "idle" /\ call.tool \in UnionTools
        /\ SuppliesNeither(call.params)) =>
        (/\ call.phase = "done"
         /\ call.outcome \in {"returned", "rejected"}
         /\ StartsWithError(call.result)
         /\ ~call.posted)

\* C3 as claimed: whenever content is present, with any string value, the
\* outbound payload of intermediateResults / processingResult carries
\* content as a text field and no file part.
C3_AnyContentTakesPrecedence ==
    (call.posted /\ call.tool \in UnionTools /\ call.params.content # UNDEF) =>
        (/\ HasPart(call.formData, "content")
         /\ ~HasPart(call.formData, "file"))

\* C3 as amended: whenever content is a non-empty string, the outbound
\* payload carries it as a text field, value unchanged, and no file part,
\* whether or not the file fields are supplied too.
C3_NonEmptyContentTakesPrecedence ==
    (call.posted /\ call.tool \in UnionTools /\ Truthy(call.params.content)) =>
        (/\ HasPart(call.formData, "content")
         /\ PartOf(call.formData, "content").kind = "text"
         /\ PartOf(call.formData, "content").value = call.params.content
         /\ ~HasPart(call.formData, "file"))

\* C3 witness: a posted call that supplied both content and a whole file.
C3_Witness ==
    /\ call.posted
    /\ call.tool \in UnionTools
    /\ Truthy(call.params.content)
    /\ Truthy(call.params.fileBase64)
    /\ Truthy(call.params.fileName)
    /\ Truthy(call.params.fileContentType)
    /\ HasPart(call.formData, "content")

\* C4: a call that misses a required field gets a validation-error
\* ToolResult and causes no upstream POST, on every path to a tool.
C4_MissingRequiredFieldNeverPosts ==
    (call.phase # "idle"
        /\ MissingRequired(call.tool, call.given, call.params)) =>
        (/\ call.phase = "done"
         /\ ~call.posted
         /\ call.outcome \in {"returned", "rejected"}
         /\ StartsWithError(call.result))

\* C5: a response outside the success range gives the text
\* "Error: <status> - <body>", the body as it was received.
C5_NonSuccessStatusText ==
    (call.phase = "done" /\ call.upstream.kind = "response"
        /\ ~InSuccessRange(call.upstream.status)) =>
        (/\ call.outcome = "returned"
         /\ call.result =
                ToolResult(<<"Error: ", ToString(call.upstream.status), " - ",
                             call.upstream.body>>))

\* C5 witness: status 503 with body "overloaded" has been answered, and so
\* has an error response whose body is JSON with white space.
C5_Witness ==
    /\ call.phase = "done"
    /\ call.upstream.kind = "response"
    /\ call.upstream.status = 503
    /\ call.upstream.body = "overloaded"
    /\ ResultText(call.result) = <<"Error: ", "503", " - ", "overloaded">>

\* C6 as claimed: a response in the success range always gives the JSON
\* serialization of the parsed body.
C6_SuccessAlwaysSerializedJson ==
    (call.phase = "done" /\ call.upstream.kind = "response"
        /\ InSuccessRange(call.upstream.status)) =>
        (/\ JsonOk(call.upstream.body)
         /\ ResultText(call.result) = <<JsonStringify(JsonParse(call.upstream.body))>>)

\* C6 as amended: a response in the success range whose body is JSON gives
\* the JSON serialization of the parsed body; one whose body is not JSON
\* gives "Error: <parse error message>"; neither gives a text of the form
\* "Error: <status> - <body>".
C6_SuccessSerializedJsonOrParseError ==
    (call.phase = "done" /\ call.upstream.kind = "response"
        /\ InSuccessRange(call.upstream.status)) =>
        (/\ call.outcome = "returned"
         /\ ~IsStatusError(call.result)
         /\ call.upstream.body \in {"{\"id\":\"abc\"}", "{ \"id\" : \"abc\" }"}
              => ResultText(call.result) = <<"{\"id\":\"abc\"}">>
         /\ call.upstream.body \in {"overloaded", ""}
              => (/\ StartsWithError(call.result)
                  /\ Len(ResultText(call.result)) = 2
                  /\ ResultText(call.result)[2] \in
                        {"Unexpected end of JSON input",
                         "Unexpected token o in JSON at position 0"}))

\* C6 witness: a 200 whose body is JSON written with white space has been
\* answered with the serialization without white space.
C6_Witness ==
    /\ call.phase = "done"
    /\ call.upstream.kind = "response"
    /\ call.upstream.status = 200
    /\ call.upstream.body = "{ \"id\" : \"abc\" }"
    /\ ResultText(call.result) = <<"{\"id\":\"abc\"}">>

-----------------------------------------------------------------------------
(* Claim C7: a failed fetch *)

\* C7: when the outbound fetch throws, the handler returns a ToolResult
\* whose text starts with "Error: ", and the step changes neither the
\* initialized flag, nor the registered tools, nor any SSE connection, nor
\* the SSE client registry, nor the handlers registered with the MCP server.
C7_FetchFailureChangesNoServerState ==
    [][(call.phase = "awaiting" /\ call'.phase = "done"
            /\ call'.upstream.kind = "throws") =>
        (/\ call'.outcome = "returned"
         /\ StartsWithError(call'.result)
         /\ Len(ResultText(call'.result)) = 2
         /\ ResultText(call'.result)[2] =
                (IF call'.upstream.msg = "" THEN "Unknown error"
                 ELSE call'.upstream.msg)
         /\ initialized' = initialized
         /\ tools' = tools
         /\ sse' = sse
         /\ sseClients' = sseClients
         /\ mcpClients' = mcpClients)]_vars

\* C7 witness: part_001 has answered a call whose fetch threw while an SSE
\* client is registered with a running heartbeat timer.
C7_Witness ==
    /\ call.phase = "done"
    /\ call.upstream.kind = "throws"
    /\ StartsWithError(call.result)
    /\ initialized
    /\ \A t \in ToolNames : tools[t] = 1
    /\ \E c \in sseClients : sse[c].timer

-----------------------------------------------------------------------------
(* Claims C8 - C10: teardown of an SSE connection *)

\* C8 as claimed: when the abort signal of a connection fires, in that
\* step its timer is cancelled and its writer released, the registry
\* shrinks by exactly one and every other connection is left as it was.
C8_AbortShrinksRegistryByOne ==
    [][\A c \in Clients :
        (TracksClients(draft) /\ ~sse[c].aborted /\ sse'[c].aborted) =>
            (/\ ~sse'[c].timer
             /\ sse'[c].writer # "open"
             /\ Cardinality(sseClients') = Cardinality(sseClients) - 1
             /\ \A o \in Clients \ {c} :
                    /\ sse'[o] = sse[o]
                    /\ o \in sseClients' <=> o \in sseClients)]_vars

\* C8 as amended: when the abort signal of a connection fires, in that
\* step its timer is cancelled and its writer released; the client is not
\* in the registry afterwards: the registry shrinks by exactly one when
\* the client was still registered and is unchanged when a failed
\* heartbeat had removed it already; every other connection is left as it
\* was; after the signal no heartbeat frame is queued or delivered and the
\* timer stays cancelled.
C8_AbortReleasesSession ==
    [][\A c \in Clients :
        /\ (~sse[c].aborted /\ sse'[c].aborted) =>
            (/\ ~sse'[c].timer
             /\ sse'[c].writer # "open"
             /\ c \notin sseClients'
             /\ sseClients' = sseClients \ {c}
             /\ c \in sseClients =>
                    Cardinality(sseClients') = Cardinality(sseClients) - 1
             /\ c \notin sseClients => sseClients' = sseClients
             /\ \A o \in Clients \ {c} :
                    /\ sse'[o] = sse[o]
                    /\ o \in sseClients' <=> o \in sseClients)
        /\ sse[c].aborted =>
            (/\ ~sse'[c].timer
             /\ sse'[c].frames = sse[c].frames
             /\ Pending(sse'[c].queue, "heartbeat")
                    <= Pending(sse[c].queue, "heartbeat"))]_vars

\* C8 witness: part_001, the abort listener of a registered connection
\* that had sent a heartbeat has run once, and another connection is still
\* registered with its timer running.
C8_Witness ==
    /\ TracksClients(draft)
    /\ \E c \in Clients :
        /\ sse[c].aborted
        /\ sse[c].cleanups = 1
        /\ sse[c].ticks >= 1
        /\ ~sse[c].timer
        /\ c \notin sseClients
        /\ \E o \in sseClients : sse[o].timer

\* C9: a cleanup of a connection that was cleaned up before leaves no
\* unhandled exception, leaves the registry as it was, changes no timer
\* and changes nothing of any other connection.
C9_SecondCleanupChangesNothing ==
    [][\A c \in Clients :
        (sse[c].cleanups >= 1 /\ sse'[c].cleanups > sse[c].cleanups) =>
            (/\ ~sse'[c].unhandled
             /\ sseClients' = sseClients
             /\ \A o \in Clients : sse'[o].timer = sse[o].timer
             /\ \A o \in Clients \ {c} : sse'[o] = sse[o])]_vars

\* C9 witness: a connection has been cleaned up at least twice, by its
\* abort listener and by a failed heartbeat write, while another connection
\* is open with its timer running.
C9_Witness ==
    \E c \in Clients :
        /\ sse[c].cleanups >= 2
        /\ sse[c].aborted
        /\ sse[c].failed >= 1
        /\ ~sse[c].unhandled
        /\ \E o \in Clients \ {c} : sse[o].timer /\ sse[o].phase = "open"

\* C10: a heartbeat write that fails cancels the timer of its connection,
\* leaves the client out of the registry and the writer not open, all in
\* the step of the failure; and no tick fires for the connection after a
\* failure.
C10_FailedHeartbeatClosesSession ==
    [][\A c \in Clients :
        /\ sse'[c].failed > sse[c].failed =>
            (/\ ~sse'[c].timer
             /\ c \notin sseClients'
             /\ sse'[c].writer # "open")
        /\ sse[c].failed >= 1 =>
            (/\ sse'[c].ticks = sse[c].ticks
             /\ ~sse'[c].timer)]_vars

\* C10 witness: a heartbeat write of an open connection has failed before
\* any abort; the timer is cancelled although ticks were left to fire.
C10_Witness ==
    \E c \in Clients :
        /\ sse[c].phase = "open"
        /\ sse[c].failed >= 1
        /\ ~sse[c].aborted
        /\ ~sse[c].timer
        /\ Total(sse, Clients, "ticks") < MaxTicks
        /\ c \notin sseClients

\* Frames of connection c in the order their writes were issued: the ones
\* the stream has taken, then the ones still queued.
Written(c) == sse[c].frames \o sse[c].queue

IsHeartbeat(f) == f.event = "heartbeat"

IsMessage(f) == f.event = "message"

Numbers(s) == [i \in 1..Len(s) |-> s[i].n]

StaysOpen(c) ==
    /\ sse[c].phase = "open"
    /\ sse[c].writer = "open"
    /\ ~sse[c].aborted

\* C11: while an SSE session stays Open, the heartbeat frames written to
\* its connection are exactly one per elapsed interval, numbered
\* 1, 2, ..., N in that order for N elapsed intervals: none missing, none
\* twice, none out of order.
C11_OneHeartbeatPerTickInOrder ==
    \A c \in Clients :
        StaysOpen(c) =>
            Numbers(SelectSeq(Written(c), IsHeartbeat))
                = [i \in 1..sse[c].ticks |-> i]

\* C11 witness: an Open session whose interval has elapsed twice, with the
\* second heartbeat written while the first was still queued.
C11_Witness ==
    \E c \in Clients :
        /\ StaysOpen(c)
        /\ sse[c].ticks = 2
        /\ Len(SelectSeq(sse[c].queue, IsHeartbeat)) = 2

\* The registry a draft keeps of its SSE clients: part_001's sseClients
\* set; index.ts has no set of its own and hands the connection to the MCP
\* server only.
Registered(c) ==
    IF TracksClients(draft) THEN c \in sseClients ELSE c \in mcpClients

\* C12: the first frame written to a new stream is the `connected` event
\* and it carries the generated client identifier; no other frame comes
\* before it, and an Open session is in the registry with its heartbeat
\* timer running.
C12_ConnectedFirstWithClientId ==
    \A c \in Clients :
        /\ Written(c) # <<>> =>
              /\ Written(c)[1].event = "connected"
              /\ Written(c)[1].data \in ClientIds
              /\ \A i \in 2..Len(Written(c)) : Written(c)[i].event # "connected"
        /\ StaysOpen(c) => Registered(c) /\ sse[c].timer

IsPrefix(s, t) == Len(s) <= Len(t) /\ SubSeq(t, 1, Len(s)) = s

\* The session is Closed: its writer was closed or has failed.
SessionClosed(c) ==
    /\ sse[c].phase = "open"
    /\ sse[c].writer \in {"closing", "closed", "errored"}

\* C13: once an SSE session is Closed, no step adds a frame to what was
\* written to its stream, no forwarded event's write raises an exception
\* to the MCP layer that called it, and no rejection is left unhandled.
C13_WriteAfterCloseDroppedOrLogged ==
    [][\A c \in Clients :
          SessionClosed(c) =>
              /\ IsPrefix(Written(c)', Written(c))
              /\ sse'[c].sendError = "escaped" => sse[c].sendError = "escaped"
              /\ sse'[c].unhandled => sse[c].unhandled]_vars

Increasing(s) == \A i, j \in 1..Len(s) : i < j => s[i] < s[j]

\* C14: on one SSE connection a write puts one whole frame behind every
\* frame written before it, the stream takes frames from the front of
\* what is queued, and the forwarded events are on the stream in their
\* arrival order (a broken stream only discards what was still queued).
C14_FramesWholeInIssueOrder ==
    [][\A c \in Clients :
          LET was == Written(c)
              now == Written(c)'
          IN /\ \/ now = was
                \/ /\ Len(now) = Len(was) + 1
                   /\ SubSeq(now, 1, Len(was)) = was
                   /\ now[Len(now)].whole
                \/ now = sse[c].frames
             /\ \/ sse'[c].frames = sse[c].frames
                \/ /\ sse[c].queue # <<>>
                   /\ sse'[c].frames = Append(sse[c].frames, Head(sse[c].queue))
             /\ Increasing(Numbers(SelectSeq(now, IsMessage)))]_vars

\* C14 witness: a heartbeat and a forwarded event are queued together on a
\* connection that already carried an earlier forwarded event.
C14_Witness ==
    \E c \in Clients :
        /\ Len(SelectSeq(Written(c), IsMessage)) = 2
        /\ SelectSeq(sse[c].queue, IsHeartbeat) # <<>>
        /\ SelectSeq(sse[c].queue, IsMessage) # <<>>

\* The last exchange was a request to /mcp answered by handleMcp's own code
\* with no fault raised outside it.
AnsweredByHandleMcp ==
    /\ http.request.path = "/mcp"
    /\ http.request.method # "OPTIONS"
    /\ http.request.fault = "none"
    /\ http.response.route = "mcp"

\* C15: on /mcp the JSON-RPC error code follows the failure: -32700 for a
\* body that is not valid JSON, -32601 for a valid body whose method is
\* neither `describe` nor `run`, -32000 with the stack in the data field
\* for a tool that cannot be resolved or executed.
C15_ErrorCodeFollowsFailure ==
    AnsweredByHandleMcp =>
        /\ http.request.body = "not json" => http.response.code = -32700
        /\ http.request.body \in {"ping", "null"} => http.response.code = -32601
        /\ http.request.body \in {"run unknown tool", "run without params"} =>
              http.response.code = -32000 /\ http.response.stack

\* The last request was answered with a response this code built.
ResponseBuilt ==
    http.response.route \notin {"none", "escaped", "framework"}

HeaderNames(r) == {h[1] : h \in r.headers}

\* Responses the handlers hand to addCorsHeaders.
InnerResponses ==
    {NotFound, SseErrorResponse, JsonRpcResult, SseResponse("index_ts"),
     SseResponse("part_001"), JsonRpcError(400, -32700, FALSE),
     JsonRpcError(500, -32603, TRUE)}

\* C16: every response the server produces carries
\* Access-Control-Allow-Origin: *, Access-Control-Allow-Methods: GET, POST,
\* OPTIONS, Access-Control-Allow-Headers: * and an Access-Control-Max-Age,
\* and adding them changes neither the status nor the body.
C16_EveryResponseCarriesCors ==
    /\ ResponseBuilt =>
          /\ CorsThree \subseteq http.response.headers
          /\ "Access-Control-Max-Age" \in HeaderNames(http.response)
    /\ \A r \in InnerResponses :
          /\ addCorsHeaders(r).status = r.status
          /\ addCorsHeaders(r).body = r.body

\* C17: an OPTIONS request to any path is answered by the preflight
\* short-circuit with no body and the four CORS headers; it reaches
\* neither the health check, the SSE or /mcp handler nor the 404 branch.
C17_OptionsAlwaysPreflight ==
    http.request.method = "OPTIONS" =>
        /\ http.response.route = "preflight"
        /\ http.response.body = "null"
        /\ CorsThree \cup {MaxAge} \subseteq http.response.headers
        /\ ~http.response.forwarded

\* C18: /health is answered 200 with JSON status "ok" without calling the
\* MCP object; /mcp, /sse and /sse/message are the only paths forwarded to
\* it; every other path is answered 404 with the CORS headers attached.
C18_RoutingByPath ==
    (http.request.method \in {"GET", "POST"} /\ http.response.route # "none") =>
        /\ http.request.path = "/health" =>
              /\ http.response.status = 200
              /\ http.response.body = "json"
              /\ http.response.route = "health"
              /\ ~http.response.forwarded
        /\ http.response.forwarded => http.request.path \in ObjectPaths
        /\ http.request.path \notin ObjectPaths \cup {"/health"} =>
              /\ http.response.status = 404
              /\ CorsThree \subseteq http.response.headers

\* C19: every request gets an HTTP response, also when worker routing,
\* forwarding to the durable object, server initialization, SSE setup or
\* /mcp handling throws, and no SSE connection is left with a running
\* heartbeat timer but no registry entry or with a registry entry but a
\* closed writer.
C19_ExceptionsBecomeResponses ==
    /\ http.request # NoRequest =>
          /\ http.response.route # "escaped"
          /\ http.response.status \in {200, 400, 404, 500}
          /\ (http.request.method # "OPTIONS"
                /\ http.request.fault \in {"forward", "sse"}) =>
                http.response.status = 500
    /\ \A c \in Clients :
          /\ ~(sse[c].timer /\ ~Registered(c))
          /\ ~(Registered(c) /\ sse[c].writer \in {"closing", "closed", "errored"})

\* C20: whatever the length of the configured API key, no log line and no
\* health-check response contains the complete key.
C20_CompleteKeyNeverSurfaced ==
    HasRealValue(apiKey) =>
        \A text \in http.logged \cup http.response.shown :
            ~Occurs(Chars(apiKey), text)

\* The endpoint list of the README, by the tool each entry belongs to.
ListedEndpoint(tool) ==
    CASE tool = "inputPrompt"         -> "https://ai-stage-be.compliq.io/v1/actions/task-input"
      [] tool = "addFile"             -> "https://ai-stage-be.compliq.io/v1/actions/file-input"
      [] tool = "intermediateResults" -> "https://ai-stage-be.compliq.io/v1/actions/resources-used"
      [] tool = "processingResult"    -> "https://ai-stage-be.compliq.io/v1/actions/output"

\* C21: a tool call posts at most once, to the endpoint listed for its own
\* tool and to no other tool's, with `Authorization: x-api-key <apiKey>`
\* for the configured key; once the POST is issued no step of the call
\* issues another or changes where it went.
C21_OnePostToOwnEndpoint ==
    [][/\ call'.posted =>
             /\ call'.url = ListedEndpoint(call'.tool)
             /\ \A other \in ToolNames \ {call'.tool} :
                   call'.url # ListedEndpoint(other)
             /\ Truthy(apiKey) => call'.auth = "x-api-key " \o apiKey
       /\ ~call'.posted => call'.url = ""
       /\ call.posted =>
             \/ call' = IdleCall
             \/ /\ call'.posted
                /\ call'.url = call.url
                /\ call'.auth = call.auth
                /\ call'.formData = call.formData]_vars

\* C21 witness: addFile has posted with a configured key and the upstream
\* response has been handled.
C21_Witness ==
    /\ call.tool = "addFile"
    /\ call.posted
    /\ call.phase = "done"
    /\ Truthy(apiKey)

BaseFields == {"sessionId", "correlationId", "timestamp"}

\* The field of its own each tool sends.
ToolOwnField(tool) ==
    CASE tool = "inputPrompt"         -> "content"
      [] tool = "intermediateResults" -> "resourceName"
      [] tool = "processingResult"    -> "processingTime"
      [] OTHER                        -> "file"

\* The payload carries field f as a text part holding the supplied value.
CarriesText(fd, p, f) ==
    /\ HasPart(fd, f)
    /\ PartOf(fd, f).kind = "text"
    /\ p[f] # UNDEF => PartOf(fd, f).value = p[f]

\* sessionId, correlationId, timestamp and the tool's own field.
CarriesOwnFields(fd, p, tool) ==
    /\ \A f \in BaseFields : CarriesText(fd, p, f)
    /\ tool # "addFile" => CarriesText(fd, p, ToolOwnField(tool))
    /\ tool = "addFile" =>
          /\ HasPart(fd, "file")
          /\ PartOf(fd, "file").kind = "file"
          /\ PartOf(fd, "file").bytes = Atob(p.fileBase64)
          /\ p.fileName # UNDEF => PartOf(fd, "file").filename = p.fileName
          /\ ~HasPart(fd, "content")

\* C22 as claimed: a posted payload carries sessionId, correlationId,
\* timestamp and the tool's own field, userId whenever the call supplied
\* one, and for addFile a file part tagged with the supplied fileName and
\* fileContentType and no content field.
C22_PayloadCarriesSuppliedFields ==
    call.posted =>
        /\ CarriesOwnFields(call.formData, call.params, call.tool)
        /\ call.params.userId # UNDEF =>
              CarriesText(call.formData, call.params, "userId")
        /\ (call.tool = "addFile" /\ call.params.fileContentType # UNDEF) =>
              PartOf(call.formData, "file").type = call.params.fileContentType

\* C22 as amended: userId is carried whenever it is a non-empty string,
\* and the file part of addFile is tagged with the supplied fileName and
\* with fileContentType in lower case.
C22_PayloadCarriesNonEmptyFields ==
    call.posted =>
        /\ CarriesOwnFields(call.formData, call.params, call.tool)
        /\ Truthy(call.params.userId) =>
              CarriesText(call.formData, call.params, "userId")
        /\ (call.tool = "addFile" /\ call.params.fileContentType # UNDEF) =>
              PartOf(call.formData, "file").type
                  = BlobType(call.params.fileContentType)

\* C22 witness: addFile posted a file with a userId supplied.
C22_Witness ==
    /\ call.posted
    /\ call.tool = "addFile"
    /\ Truthy(call.params.userId)
    /\ call.params.fileContentType = "PDF"
    /\ HasPart(call.formData, "userId")

\* C23: decoding the base64 encoding of a byte sequence reproduces the
\* bytes, same length and same order, whether the decoder works in slices
\* of ChunkSize characters or on the whole string; while the loop runs, the
\* arrays pushed so far are the bytes before the offset, none lost and none
\* twice.
C23_DecodeReproducesBytes ==
    /\ decoder.phase \in {"decoding", "done"} =>
          /\ Len(decoder.byteString) = Len(decoder.bytes)
          /\ BlobOf(decoder.byteArrays)
                = SubSeq(decoder.bytes, 1, Min(decoder.offset, Len(decoder.bytes)))
    /\ decoder.phase = "done" =>
          /\ Len(decoder.blob) = Len(decoder.bytes)
          /\ decoder.blob = decoder.bytes

\* C23 witness: a file one byte longer than a slice was decoded in two
\* slices, the second holding the last byte.
C23_Witness ==
    /\ decoder.phase = "done"
    /\ Chunked(draft)
    /\ Len(decoder.bytes) = ChunkSize + 1
    /\ Len(decoder.byteArrays) = 2
    /\ decoder.byteArrays[2] = <<decoder.bytes[ChunkSize + 1]>>
    /\ decoder.bytes[ChunkSize] # decoder.bytes[ChunkSize + 1]

\* Text that is not base64.
InvalidBase64(b64) == b64 = "%%%"

\* The handler reaches atob(fileBase64): always in addFile, in the file
\* branch of the two union tools.
ReachesDecode(tool, p) ==
    \/ tool = "addFile"
    \/ /\ tool \in UnionTools
       /\ ~Truthy(p.content)
       /\ Truthy(p.fileName)
       /\ Truthy(p.fileContentType)

C25_EverySseRequestOpens ==
    \A c \in Clients : (sse[c].phase = "connecting") ~> (sse[c].phase = "open")

\* C26: no tool name is registered twice, whatever requests came before,
\* and `initialized` is true only after all four tools are registered.
C26_ToolsRegisteredAtMostOnce ==
    /\ \A t \in ToolNames : tools[t] <= 1
    /\ initialized => \A t \in ToolNames : tools[t] >= 1

\* The writer has not been closed by the code (a broken stream leaves it
\* errored, which is not closed).
Unclosed(w) == w \notin {"closing", "closed"}

CleanedUp(c) == sse[c].cleanups >= 1

\* C28: once a client has been cleaned up, by the abort signal or by a
\* failed heartbeat write, the MCP server holds its handler no longer and
\* forwards no further protocol event to it.
C28_CleanupDeregistersHandler ==
    [][\A c \in Clients :
          CleanedUp(c) =>
              /\ c \notin mcpClients
              /\ sse'[c].events = sse[c].events]_vars

\* C29: with the API key missing or empty, a tool call issues no upstream
\* POST and ends with a ToolResult whose text starts with "Error: ".
C29_NoKeyNoPost ==
    (call.phase # "idle" /\ ~Truthy(apiKey)) =>
        /\ ~call.posted
        /\ call.phase = "done"
        /\ StartsWithError(call.result)

\* The step returns the Response of a connection whose registration with
\* the MCP server threw.
OpensUnregistered(c) ==
    /\ sse[c].phase # "open"
    /\ sse'[c].phase = "open"
    /\ c \notin mcpClients'

\* C30: when registering the connection with the MCP server throws, the
\* stream returned carries the `connected` event followed by one `error`
\* event, the writer is closed, and no heartbeat timer and no abort
\* listener are registered for the connection.
C30_FailedRegistrationReportsAndCloses ==
    [][\A c \in Clients :
          OpensUnregistered(c) =>
              /\ Len(sse'[c].frames) = 2
              /\ sse'[c].frames[1].event = "connected"
              /\ sse'[c].frames[2].event = "error"
              /\ sse'[c].writer \in {"closing", "closed"}
              /\ ~sse'[c].timer
              /\ ~sse'[c].listener]_vars

=========================================================================
